---------------------------- MODULE Spec2Model ----------------------------
(***************************************************************************)
(* Model of adi/ad9084.py: the label parser _map_to_dict, the channel      *)
(* sorter _sortconv, the construction of the ad9084 control object and     *)
(* the properties of the constructed object.                               *)
(*                                                                         *)
(* Python strings are sequences of one-character strings, so that          *)
(* replace, split, find, slicing, substring tests and int() are computed   *)
(* as the interpreter computes them.  Python dicts are sequences of        *)
(* [k, v] entries in insertion order (the order dict iteration follows).   *)
(* Leading underscores of the source's names are dropped.                  *)
(***************************************************************************)
EXTENDS Integers, Sequences, FiniteSets, TLC

(***************************************************************************)
(* Bounds of the model.                                                    *)
(***************************************************************************)
\* longest list of names handed to _sortconv in SpecSort
MaxNames == 4
\* most channels on the receive device in Spec
MaxChans == 2

\* longest sequence of values a vector setter is given
MaxValues == 2

(***************************************************************************)
(* Python str primitives.                                                  *)
(***************************************************************************)
DigitChars == <<"0", "1", "2", "3", "4", "5", "6", "7", "8", "9">>

IsDigit(c) == \E d \in 1..Len(DigitChars) : DigitChars[d] = c

DigitVal(c) == (CHOOSE d \in 1..Len(DigitChars) : DigitChars[d] = c) - 1

\* w[a:b] for 0 <= a, b any integer: a negative b counts from the end, and
\* both ends are clamped to the string
PySlice(w, a, b) ==
    LET n  == Len(w)
        bb == IF b < 0 THEN (IF n + b < 0 THEN 0 ELSE n + b)
                       ELSE (IF b > n THEN n ELSE b)
        aa == IF a > n THEN n ELSE a
    IN  IF aa >= bb THEN <<>> ELSE SubSeq(w, aa + 1, bb)

\* w[a:]
PySliceFrom(w, a) == PySlice(w, a, Len(w))

StartsWithAt(w, sub, i) ==
    /\ i + Len(sub) <= Len(w)
    /\ \A j \in 1..Len(sub) : w[i + j] = sub[j]

RECURSIVE FindFrom(_, _, _)
FindFrom(w, sub, i) ==
    IF i + Len(sub) > Len(w) THEN -1
    ELSE IF StartsWithAt(w, sub, i) THEN i
    ELSE FindFrom(w, sub, i + 1)

\* w.find(sub): the lowest 0-based offset of sub in w, or -1
PyFind(w, sub) == FindFrom(w, sub, 0)

\* sub in w
PyIn(sub, w) == PyFind(w, sub) # -1

RECURSIVE PyReplace(_, _, _)
\* s.replace(old, new), old not empty: left to right, not overlapping
PyReplace(s, old, new) ==
    IF s = <<>> THEN <<>>
    ELSE IF StartsWithAt(s, old, 0)
         THEN new \o PyReplace(PySliceFrom(s, Len(old)), old, new)
         ELSE <<Head(s)>> \o PyReplace(Tail(s), old, new)

RECURSIVE PySplit(_, _)
\* s.split(sep), sep not empty: one more segment than occurrences of sep
PySplit(s, sep) ==
    LET i == PyFind(s, sep)
    IN  IF i = -1 THEN <<s>>
        ELSE <<PySlice(s, 0, i)>> \o PySplit(PySliceFrom(s, i + Len(sep)), sep)

RECURSIVE DigitsValue(_, _)
DigitsValue(s, acc) ==
    IF s = <<>> THEN acc
    ELSE IF Head(s) = "_" THEN DigitsValue(Tail(s), acc)
         ELSE DigitsValue(Tail(s), acc * Len(DigitChars) + DigitVal(Head(s)))

\* int(s) over the alphabet of channel names (letters, digits, "_"): decimal
\* digits, single underscores allowed between digits; anything else raises
\* ValueError (ok = FALSE)
PyInt(s) ==
    LET wellFormed ==
            /\ s # <<>>
            /\ \A i \in 1..Len(s) : IsDigit(s[i]) \/ s[i] = "_"
            /\ IsDigit(s[1]) /\ IsDigit(s[Len(s)])
            /\ \A i \in 1..(Len(s) - 1) : ~(s[i] = "_" /\ s[i + 1] = "_")
    IN  IF wellFormed THEN [ok |-> TRUE, val |-> DigitsValue(s, 0)]
        ELSE [ok |-> FALSE, val |-> 0]

\* str(n) for n >= 0
RECURSIVE PyStr(_)
PyStr(n) ==
    IF n < Len(DigitChars) THEN <<DigitChars[n + 1]>>
    ELSE PyStr(n \div Len(DigitChars)) \o <<DigitChars[(n % Len(DigitChars)) + 1]>>

(***************************************************************************)
(* String literals of the source.                                          *)
(***************************************************************************)
VoltageStr == <<"v", "o", "l", "t", "a", "g", "e">>

AltVoltageStr == <<"a", "l", "t">> \o VoltageStr

SufI == <<"_", "i">>

SufQ == <<"_", "q">>

Underscore == <<"_">>

(***************************************************************************)
(* The three name shapes of the driver's channels, and a name whose        *)
(* numeric suffix does not parse.                                          *)
(***************************************************************************)
VoltageN(n) == VoltageStr \o PyStr(n)

VoltageI(n) == VoltageStr \o PyStr(n) \o SufI

VoltageQ(n) == VoltageStr \o PyStr(n) \o SufQ

AltVoltageN(n) == AltVoltageStr \o PyStr(n)

VoltageBad == VoltageStr \o <<"X">>

\* a channel that is no voltage channel
Temp0 == <<"t", "e", "m", "p", "0">>

(***************************************************************************)
(* _sortconv, lines 43-81.                                                 *)
(***************************************************************************)
\* line 48: filter(lambda k: "_i" in k, chans_names)
FilterI(chans_names) == SelectSeq(chans_names, LAMBDA k : PyIn(SufI, k))

\* line 49: filter(lambda k: "_q" in k, chans_names)
FilterQ(chans_names) == SelectSeq(chans_names, LAMBDA k : PyIn(SufQ, k))

\* the assert left out
AssertModesOk_absent(dds, complex) == TRUE

\* lines 51-52: the assert passes
AssertModesOk(dds, complex) == ~(dds /\ complex)

\* the key cut to one character: voltage10_i sorts as voltage1_i
ignoreadc_one_digit(w) ==
    PyInt(PySlice(w, Len(VoltageStr), Len(VoltageStr) + 1))

\* lines 54-55
ignoreadc(w) == PyInt(PySlice(w, Len(VoltageStr), PyFind(w, Underscore)))

\* lines 57-58
ignorealt(w) == PyInt(PySliceFrom(w, Len(AltVoltageStr)))

\* lines 60-61
ignorevoltage(w) == PyInt(PySliceFrom(w, Len(VoltageStr)))

\* lines 64-73: which key function the mode selects
FiltName(dds, complex) ==
    IF dds THEN "ignorealt"
    ELSE IF ~complex THEN "ignorevoltage"
    ELSE "ignoreadc"

filt(name, w) ==
    CASE name = "ignorealt"     -> ignorealt(w)
      [] name = "ignorevoltage" -> ignorevoltage(w)
      [] OTHER                  -> ignoreadc(w)

\* lines 64-73: tmpI after the mode is applied
SelectTmpI(chans_names, dds, complex) ==
    IF dds \/ ~complex THEN chans_names ELSE FilterI(chans_names)

\* lines 64-73: noq after the mode is applied
SelectNoq(noq, dds, complex) ==
    IF dds \/ ~complex THEN TRUE ELSE noq

\* the comparison left out: every element goes to the front
InsertByKey_front(sorted, x, fname) == <<x>> \o sorted

RECURSIVE InsertByKey(_, _, _)
\* stable insertion: after every element whose key is <= the new key
InsertByKey(sorted, x, fname) ==
    IF sorted = <<>> THEN <<x>>
    ELSE IF filt(fname, x).val < filt(fname, Head(sorted)).val
         THEN <<x>> \o sorted
         ELSE <<Head(sorted)>> \o InsertByKey(Tail(sorted), x, fname)

\* the list left in the order it came in
StableSort_unsorted(s, fname) == s

RECURSIVE StableSort(_, _)
StableSort(s, fname) ==
    IF s = <<>> THEN <<>>
    ELSE InsertByKey(StableSort(SubSeq(s, 1, Len(s) - 1), fname), s[Len(s)], fname)

\* lines 75-76: sorted(s, key=filt): every key is computed first (ValueError
\* if one does not parse), then the list is sorted stably, ascending
PySorted(s, fname) ==
    IF \E i \in 1..Len(s) : ~filt(fname, s[i]).ok
    THEN [ok |-> FALSE, val |-> <<>>]
    ELSE [ok |-> TRUE, val |-> StableSort(s, fname)]

\* lines 78-80: one pass of the loop body for index i (1-based here);
\* ok = FALSE is the IndexError of tmpQ[i]
LoopBody(out, tmpI, tmpQ, noq, i) ==
    IF noq THEN [ok |-> TRUE, out |-> Append(out, tmpI[i])]
    ELSE IF i > Len(tmpQ) THEN [ok |-> FALSE, out |-> Append(out, tmpI[i])]
    ELSE [ok |-> TRUE, out |-> Append(Append(out, tmpI[i]), tmpQ[i])]

RECURSIVE Loop(_, _, _, _, _)
\* lines 77-80
Loop(out, tmpI, tmpQ, noq, i) ==
    IF i > Len(tmpI) THEN [ok |-> TRUE, out |-> out]
    ELSE LET r == LoopBody(out, tmpI, tmpQ, noq, i)
         IN  IF r.ok THEN Loop(r.out, tmpI, tmpQ, noq, i + 1) ELSE r

\* the whole call: status is "ok" or the exception raised
sortconv(chans_names, noq, dds, complex) ==
    IF ~AssertModesOk(dds, complex)
    THEN [status |-> "AssertionError", out |-> <<>>]
    ELSE LET fname == FiltName(dds, complex)
             sI    == PySorted(SelectTmpI(chans_names, dds, complex), fname)
             sQ    == PySorted(FilterQ(chans_names), fname)
         IN  IF ~sI.ok \/ ~sQ.ok
             THEN [status |-> "ValueError", out |-> <<>>]
             ELSE LET r == Loop(<<>>, sI.val, sQ.val,
                                SelectNoq(noq, dds, complex), 1)
                  IN  IF r.ok THEN [status |-> "ok", out |-> r.out]
                      ELSE [status |-> "IndexError", out |-> <<>>]


(***************************************************************************)
(* Python dict, in insertion order.                                        *)
(***************************************************************************)
DictHas(d, key) == \E i \in 1..Len(d) : d[i].k = key

DictGet(d, key) == d[CHOOSE i \in 1..Len(d) : d[i].k = key].v

\* d[key] = val: in place when the key exists, appended when it is new
DictSet(d, key, val) ==
    IF DictHas(d, key)
    THEN [i \in 1..Len(d) |-> IF d[i].k = key THEN [k |-> key, v |-> val] ELSE d[i]]
    ELSE Append(d, [k |-> key, v |-> val])

(***************************************************************************)
(* _map_to_dict, lines 12-40.  A channel is a record: id (ch._id),         *)
(* output, scan_element, has_label ("label" in ch.attrs) and label         *)
(* (ch.attrs["label"].value).                                              *)
(***************************************************************************)
Arrow == <<"-", ">">>

Colon == <<":">>

BufferOnly == <<"b", "u", "f", "f", "e", "r", "_", "o", "n", "l", "y">>

AdcStr == <<"A", "D", "C">>

\* lines 23-24
LabelParts(lab) == PySplit(PyReplace(lab, Colon, Arrow), Arrow)

\* the else branch of lines 36-39 assigning a new list instead of appending
InsertChannel_overwrite(paths, adc, cddc, fddc, id) ==
    LET p1 == IF ~DictHas(paths, adc) THEN DictSet(paths, adc, <<>>) ELSE paths
        a0 == DictGet(p1, adc)
        a1 == IF ~DictHas(a0, cddc) THEN DictSet(a0, cddc, <<>>) ELSE a0
        c0 == DictGet(a1, cddc)
    IN  DictSet(p1, adc,
                DictSet(a1, cddc, DictSet(c0, fddc, [channels |-> <<id>>])))

\* lines 32-40
InsertChannel(paths, adc, cddc, fddc, id) ==
    LET p1 == IF ~DictHas(paths, adc) THEN DictSet(paths, adc, <<>>) ELSE paths
        a0 == DictGet(p1, adc)
        a1 == IF ~DictHas(a0, cddc) THEN DictSet(a0, cddc, <<>>) ELSE a0
        c0 == DictGet(a1, cddc)
        c1 == IF ~DictHas(c0, fddc)
              THEN DictSet(c0, fddc, [channels |-> <<id>>])
              ELSE DictSet(c0, fddc,
                           [channels |-> Append(DictGet(c0, fddc).channels, id)])
    IN  DictSet(p1, adc, DictSet(a1, cddc, c1))

\* line 28 without the discarded first segment: the four parts read as
\* fddc, cddc, adc, _
map_to_dict_keep_side(paths, ch) ==
    IF ~ch.has_label THEN paths
    ELSE IF ch.label = BufferOnly THEN paths
    ELSE LET parts == LabelParts(ch.label)
         IN  IF Len(parts) = 3
             THEN InsertChannel(paths, parts[3], parts[2], parts[1], ch.id)
             ELSE IF Len(parts) = 4
             THEN InsertChannel(paths, parts[3], parts[2], parts[1], ch.id)
             ELSE paths

map_to_dict(paths, ch) ==
    IF ~ch.has_label THEN paths
    ELSE IF ch.label = BufferOnly THEN paths
    ELSE LET parts == LabelParts(ch.label)
         IN  IF Len(parts) = 3
             THEN InsertChannel(paths, parts[3], parts[2], parts[1], ch.id)
             ELSE IF Len(parts) = 4
             THEN InsertChannel(paths, parts[4], parts[3], parts[2], ch.id)
             ELSE paths

(***************************************************************************)
(* ad9084.__init__, lines 105-183, as functions of the device's channels.  *)
(***************************************************************************)
RECURSIVE BuildPaths(_, _)
\* lines 137-140: the loop over self._rxadc.channels
BuildPaths(paths, channels) ==
    IF channels = <<>> THEN paths
    ELSE BuildPaths(IF Head(channels).has_label
                    THEN map_to_dict(paths, Head(channels))
                    ELSE paths,
                    Tail(channels))

Ids(channels) == [i \in 1..Len(channels) |-> channels[i].id]

\* the gathering merged into the label loop of lines 138-140
GatherRx_labelled(channels) ==
    Ids(SelectSeq(channels,
                  LAMBDA ch : ch.has_label /\ ch.scan_element /\ ~ch.output))

\* lines 144-146
GatherRx(channels) ==
    Ids(SelectSeq(channels, LAMBDA ch : ch.scan_element /\ ~ch.output))

\* lines 147-149
GatherTx(channels) == Ids(SelectSeq(channels, LAMBDA ch : ch.scan_element))

\* lines 147-151, the else branch
GatherDds(channels) == Ids(SelectSeq(channels, LAMBDA ch : ~ch.scan_element))

RECURSIVE FlattenFine(_)
\* lines 169-171: chans += paths[converter][cdc][fdc]["channels"], every fdc
FlattenFine(fines) ==
    IF fines = <<>> THEN <<>>
    ELSE Head(fines).v.channels \o FlattenFine(Tail(fines))

\* line 173 without the "_q" test
KeepRepresentatives_with_q(chans) ==
    SelectSeq(chans, LAMBDA n : PyIn(VoltageStr, n))

\* line 173
KeepRepresentatives(chans) ==
    SelectSeq(chans, LAMBDA n : ~PyIn(SufQ, n) /\ PyIn(VoltageStr, n))

\* lines 174-179 for one (converter, cdc): ok = FALSE is the IndexError of
\* chans[0]
DeriveOne(acc, converter, chans) ==
    IF chans = <<>> THEN [acc EXCEPT !.ok = FALSE]
    ELSE IF PyIn(AdcStr, converter)
         THEN [acc EXCEPT !.rx_coarse = Append(@, chans[1]),
                          !.rx_fine = @ \o chans]
         ELSE [acc EXCEPT !.tx_coarse = Append(@, chans[1]),
                          !.tx_fine = @ \o chans]

RECURSIVE DeriveCoarse(_, _, _)
\* lines 168-179: the loop over the coarse stages of one converter
DeriveCoarse(acc, converter, coarses) ==
    IF coarses = <<>> \/ ~acc.ok THEN acc
    ELSE DeriveCoarse(
             DeriveOne(acc, converter,
                       KeepRepresentatives(FlattenFine(Head(coarses).v))),
             converter, Tail(coarses))

RECURSIVE DeriveConverters(_, _)
\* lines 167-179: the loop over the converters
DeriveConverters(acc, paths) ==
    IF paths = <<>> \/ ~acc.ok THEN acc
    ELSE DeriveConverters(DeriveCoarse(acc, Head(paths).k, Head(paths).v),
                          Tail(paths))

\* an empty map answered with channel zero as the representative
Derive_channel_zero(paths) ==
    IF paths = <<>>
    THEN [ok |-> TRUE, rx_coarse |-> <<VoltageI(0)>>, rx_fine |-> <<VoltageI(0)>>,
          tx_coarse |-> <<VoltageI(0)>>, tx_fine |-> <<VoltageI(0)>>]
    ELSE DeriveConverters([ok |-> TRUE, rx_coarse |-> <<>>, rx_fine |-> <<>>,
                           tx_coarse |-> <<>>, tx_fine |-> <<>>], paths)

\* lines 163-179
Derive(paths) ==
    DeriveConverters([ok |-> TRUE, rx_coarse |-> <<>>, rx_fine |-> <<>>,
                      tx_coarse |-> <<>>, tx_fine |-> <<>>], paths)


(***************************************************************************)
(* The devices the model is run on.                                        *)
(***************************************************************************)
SegFDDC(n) == <<"F", "D", "D", "C">> \o PyStr(n)

SegCDDC(n) == <<"C", "D", "D", "C">> \o PyStr(n)

SegADC(n) == AdcStr \o PyStr(n)

SegFDUC(n) == <<"F", "D", "U", "C">> \o PyStr(n)

SegCDUC(n) == <<"C", "D", "U", "C">> \o PyStr(n)

SegDAC(n) == <<"D", "A", "C">> \o PyStr(n)

SegSide == <<"A">>

\* "F->C->A"
Label3(f, c, a) == f \o Arrow \o c \o Arrow \o a

\* "S:F->C->A"
Label4(sd, f, c, a) == sd \o Colon \o Label3(f, c, a)

\* "F->C": one segment short
Label2(f, c) == f \o Arrow \o c

Chan(id, output, scan_element, has_label, label) ==
    [id |-> id, output |-> output, scan_element |-> scan_element,
     has_label |-> has_label, label |-> label]

\* a buffered input channel with a label
DataIn(id, label) == Chan(id, FALSE, TRUE, TRUE, label)

\* channels a receive device may expose
RxPool ==
    { DataIn(VoltageI(0), Label3(SegFDDC(0), SegCDDC(0), SegADC(0))),
      DataIn(VoltageQ(0), Label3(SegFDDC(0), SegCDDC(0), SegADC(0))),
      DataIn(VoltageI(1), Label3(SegFDDC(1), SegCDDC(0), SegADC(0))),
      DataIn(VoltageI(1), Label4(SegSide, SegFDDC(0), SegCDDC(1), SegADC(0))),
      DataIn(VoltageI(0), Label4(SegSide, SegFDDC(0), SegCDDC(0), SegADC(0))),
      DataIn(VoltageN(0), Label3(SegFDDC(0), SegCDDC(0), SegADC(0))),
      DataIn(VoltageBad, Label3(SegFDDC(0), SegCDDC(0), SegADC(0))),
      DataIn(VoltageQ(1), BufferOnly),
      Chan(VoltageI(1), FALSE, TRUE, FALSE, <<>>),
      Chan(VoltageQ(1), FALSE, FALSE, TRUE, Label2(SegFDDC(0), SegCDDC(0))),
      Chan(Temp0, FALSE, FALSE, TRUE,
           Label3(SegFDDC(1), SegCDDC(0), SegADC(0))),
      Chan(VoltageI(0), TRUE, FALSE, TRUE,
           Label3(SegFDUC(0), SegCDUC(0), SegDAC(0))) }

\* a device names a channel by its id and direction
DistinctChannels(channels) ==
    \A i, j \in 1..Len(channels) :
        (channels[i].id = channels[j].id
         /\ channels[i].output = channels[j].output) => i = j

RxDevices ==
    { channels \in UNION { [1..n -> RxPool] : n \in 0..MaxChans } :
        DistinctChannels(channels) }

DataOut(id) == Chan(id, TRUE, TRUE, FALSE, <<>>)

CtrlOut(id) == Chan(id, TRUE, FALSE, FALSE, <<>>)

TxComplex == <<DataOut(VoltageQ(0)), DataOut(VoltageI(0)),
               CtrlOut(AltVoltageN(1)), CtrlOut(AltVoltageN(0))>>

TxReal == <<DataOut(VoltageN(0))>>

\* the transmit device's channels with the value of _tx_complex_data
TxSetups ==
    { [channels |-> <<>>, complex |-> FALSE],
      [channels |-> TxComplex, complex |-> TRUE],
      [channels |-> TxComplex, complex |-> FALSE],
      [channels |-> TxReal, complex |-> FALSE] }

\* the channel indices _sortconv is exercised on
Indexes == {0, 1, 2, 10}

IQNames == {VoltageI(n) : n \in Indexes} \cup {VoltageQ(n) : n \in Indexes}

RealNames == {VoltageN(n) : n \in Indexes}

AltNames == {AltVoltageN(n) : n \in Indexes}

DistinctSeqs(S) ==
    { s \in UNION { [1..n -> S] : n \in 0..MaxNames } :
        \A i, j \in 1..Len(s) : s[i] = s[j] => i = j }

\* names of different shapes in one list
MixedNames ==
    {VoltageI(0), VoltageQ(0), VoltageQ(1), VoltageN(0), AltVoltageN(0)}

SortInputs == DistinctSeqs(IQNames) \cup DistinctSeqs(RealNames)
                  \cup DistinctSeqs(AltNames) \cup DistinctSeqs(MixedNames)

(***************************************************************************)
(* State.                                                                  *)
(***************************************************************************)
VARIABLES
    rxadc,                       \* self._rxadc.channels
    txdac,                       \* self._txdac.channels
    rx_complex_data,             \* self._rx_complex_data
    tx_complex_data,             \* self._tx_complex_data
    path_map,                    \* self._path_map
    rx_channel_names,
    tx_channel_names,
    dds_channel_names,
    rx_coarse_ddc_channel_names,
    rx_fine_ddc_channel_names,
    tx_coarse_duc_channel_names,
    tx_fine_duc_channel_names,
    pc,                          \* where __init__ stands
    error,                       \* the exception that ended __init__
    args,                        \* the arguments of a direct _sortconv call
    frame,                       \* the locals of that call
    steps,                       \* the statements of _sortconv executed
    call_no,                     \* 1, or 2 when it runs on its own output
    first_out,                   \* what the first call returned
    io,                          \* the attribute accesses the last property
                                 \* call passed to the attribute bus
    result,                      \* how the last property call ended
    last                         \* the last property call

ctorVars ==
    <<rxadc, txdac, rx_complex_data, tx_complex_data, path_map,
      rx_channel_names, tx_channel_names, dds_channel_names,
      rx_coarse_ddc_channel_names, rx_fine_ddc_channel_names,
      tx_coarse_duc_channel_names, tx_fine_duc_channel_names, pc, error>>

sortVars == <<args, frame, steps, call_no, first_out>>

accessVars == <<io, result, last>>

vars == <<ctorVars, sortVars, accessVars>>

NoFrame ==
    [pc |-> "idle", tmpI |-> <<>>, tmpQ |-> <<>>, noq |-> FALSE,
     filt |-> "none", out |-> <<>>, has_out |-> FALSE, i |-> 0,
     error |-> "none"]

NoArgs == [chans_names |-> <<>>, noq |-> FALSE, dds |-> FALSE, complex |-> FALSE]

NoCall ==
    [name |-> "none", target |-> "none", write |-> FALSE, value |-> <<>>,
     names |-> <<>>]

\* no property of the object has been used
NoAccess ==
    /\ io = <<>>
    /\ result = "none"
    /\ last = NoCall

\* lines 110-117: the lists are reset; no call of _sortconv is under way
ListsReset ==
    /\ path_map = <<>>
    /\ rx_channel_names = <<>>
    /\ tx_channel_names = <<>>
    /\ dds_channel_names = <<>>
    /\ rx_coarse_ddc_channel_names = <<>>
    /\ rx_fine_ddc_channel_names = <<>>
    /\ tx_coarse_duc_channel_names = <<>>
    /\ tx_fine_duc_channel_names = <<>>
    /\ error = "none"

(***************************************************************************)
(* Spec: the construction of the control object.                           *)
(***************************************************************************)
Init ==
    /\ rxadc \in RxDevices
    /\ \E setup \in TxSetups :
           /\ txdac = setup.channels
           /\ tx_complex_data = setup.complex
    /\ rx_complex_data \in BOOLEAN
    /\ ListsReset
    /\ pc = "new"
    /\ args = NoArgs
    /\ frame = NoFrame
    /\ steps = {}
    /\ call_no = 0
    /\ first_out = <<>>
    /\ NoAccess

\* lines 136-141
BuildPathMap ==
    /\ pc = "new"
    /\ path_map' = BuildPaths(<<>>, rxadc)
    /\ pc' = "mapped"
    /\ UNCHANGED <<rxadc, txdac, rx_complex_data, tx_complex_data,
                   rx_channel_names, tx_channel_names, dds_channel_names,
                   rx_coarse_ddc_channel_names, rx_fine_ddc_channel_names,
                   tx_coarse_duc_channel_names, tx_fine_duc_channel_names,
                   error, sortVars, accessVars>>

\* lines 143-151
GatherChannels ==
    /\ pc = "mapped"
    /\ rx_channel_names' = rx_channel_names \o GatherRx(rxadc)
    /\ tx_channel_names' = tx_channel_names \o GatherTx(txdac)
    /\ dds_channel_names' = dds_channel_names \o GatherDds(txdac)
    /\ pc' = "gathered"
    /\ UNCHANGED <<rxadc, txdac, rx_complex_data, tx_complex_data, path_map,
                   rx_coarse_ddc_channel_names, rx_fine_ddc_channel_names,
                   tx_coarse_duc_channel_names, tx_fine_duc_channel_names,
                   error, sortVars, accessVars>>

\* lines 154-156
SortRx ==
    /\ pc = "gathered"
    /\ LET r == sortconv(rx_channel_names, FALSE, FALSE, rx_complex_data)
       IN  IF r.status = "ok"
           THEN /\ rx_channel_names' = r.out
                /\ pc' = "rx_sorted"
                /\ error' = error
           ELSE /\ rx_channel_names' = rx_channel_names
                /\ pc' = "sort_failed"
                /\ error' = r.status
    /\ UNCHANGED <<rxadc, txdac, rx_complex_data, tx_complex_data, path_map,
                   tx_channel_names, dds_channel_names,
                   rx_coarse_ddc_channel_names, rx_fine_ddc_channel_names,
                   tx_coarse_duc_channel_names, tx_fine_duc_channel_names,
                   sortVars, accessVars>>

\* lines 157-159
SortTx ==
    /\ pc = "rx_sorted"
    /\ LET r == sortconv(tx_channel_names, FALSE, FALSE, tx_complex_data)
       IN  IF r.status = "ok"
           THEN /\ tx_channel_names' = r.out
                /\ pc' = "tx_sorted"
                /\ error' = error
           ELSE /\ tx_channel_names' = tx_channel_names
                /\ pc' = "sort_failed"
                /\ error' = r.status
    /\ UNCHANGED <<rxadc, txdac, rx_complex_data, tx_complex_data, path_map,
                   rx_channel_names, dds_channel_names,
                   rx_coarse_ddc_channel_names, rx_fine_ddc_channel_names,
                   tx_coarse_duc_channel_names, tx_fine_duc_channel_names,
                   sortVars, accessVars>>

\* line 160
SortDds ==
    /\ pc = "tx_sorted"
    /\ LET r == sortconv(dds_channel_names, FALSE, TRUE, FALSE)
       IN  IF r.status = "ok"
           THEN /\ dds_channel_names' = r.out
                /\ pc' = "sorted"
                /\ error' = error
           ELSE /\ dds_channel_names' = dds_channel_names
                /\ pc' = "sort_failed"
                /\ error' = r.status
    /\ UNCHANGED <<rxadc, txdac, rx_complex_data, tx_complex_data, path_map,
                   rx_channel_names, tx_channel_names,
                   rx_coarse_ddc_channel_names, rx_fine_ddc_channel_names,
                   tx_coarse_duc_channel_names, tx_fine_duc_channel_names,
                   sortVars, accessVars>>

\* lines 162-179; the lists hold what was appended before chans[0] raised
DeriveRepresentatives ==
    /\ pc = "sorted"
    /\ LET r == Derive(path_map)
       IN  /\ rx_coarse_ddc_channel_names' = r.rx_coarse
           /\ rx_fine_ddc_channel_names' = r.rx_fine
           /\ tx_coarse_duc_channel_names' = r.tx_coarse
           /\ tx_fine_duc_channel_names' = r.tx_fine
           /\ pc' = IF r.ok THEN "done" ELSE "derive_failed"
           /\ error' = IF r.ok THEN error ELSE "IndexError"
    /\ UNCHANGED <<rxadc, txdac, rx_complex_data, tx_complex_data, path_map,
                   rx_channel_names, tx_channel_names, dds_channel_names,
                   sortVars, accessVars>>

\* lines 136-179 as one function of the devices: how __init__ ends
CtorStatus(rx, tx, rx_complex, tx_complex) ==
    LET r1 == sortconv(GatherRx(rx), FALSE, FALSE, rx_complex)
        r2 == sortconv(GatherTx(tx), FALSE, FALSE, tx_complex)
        r3 == sortconv(GatherDds(tx), FALSE, TRUE, FALSE)
    IN  IF r1.status # "ok" THEN r1.status
        ELSE IF r2.status # "ok" THEN r2.status
        ELSE IF r3.status # "ok" THEN r3.status
        ELSE IF ~Derive(BuildPaths(<<>>, rx)).ok THEN "IndexError"
        ELSE "ok"

Next ==
    \/ BuildPathMap
    \/ GatherChannels
    \/ SortRx
    \/ SortTx
    \/ SortDds
    \/ DeriveRepresentatives

Spec == Init /\ [][Next]_vars

(***************************************************************************)
(* SpecSort: _sortconv called directly, statement by statement, and then   *)
(* once more on what it returned.  noq is left at its default, as in       *)
(* every call the module makes.                                            *)
(***************************************************************************)
InitSort ==
    /\ rxadc = <<>>
    /\ txdac = <<>>
    /\ rx_complex_data = FALSE
    /\ tx_complex_data = FALSE
    /\ ListsReset
    /\ pc = "idle"
    /\ args \in [chans_names : SortInputs, noq : {FALSE},
                 dds : BOOLEAN, complex : BOOLEAN]
    /\ frame = [NoFrame EXCEPT !.pc = "entry"]
    /\ steps = {}
    /\ call_no = 1
    /\ first_out = <<>>
    /\ NoAccess

\* lines 48-52
ScAssert ==
    /\ frame.pc = "entry"
    /\ frame' = [frame EXCEPT
                   !.tmpI = FilterI(args.chans_names),
                   !.tmpQ = FilterQ(args.chans_names),
                   !.noq = args.noq,
                   !.pc = IF AssertModesOk(args.dds, args.complex)
                          THEN "select" ELSE "raised",
                   !.error = IF AssertModesOk(args.dds, args.complex)
                             THEN "none" ELSE "AssertionError"]
    /\ steps' = steps \cup {"assert"}
    /\ UNCHANGED <<ctorVars, accessVars, args, call_no, first_out>>

\* lines 63-73
ScSelect ==
    /\ frame.pc = "select"
    /\ frame' = [frame EXCEPT
                   !.out = <<>>,
                   !.has_out = TRUE,
                   !.filt = FiltName(args.dds, args.complex),
                   !.tmpI = SelectTmpI(args.chans_names, args.dds, args.complex),
                   !.noq = SelectNoq(args.noq, args.dds, args.complex),
                   !.pc = "sort"]
    /\ steps' = steps \cup {"select"}
    /\ UNCHANGED <<ctorVars, accessVars, args, call_no, first_out>>

\* lines 75-76
ScSort ==
    /\ frame.pc = "sort"
    /\ LET sI == PySorted(frame.tmpI, frame.filt)
           sQ == PySorted(frame.tmpQ, frame.filt)
       IN  IF sI.ok /\ sQ.ok
           THEN frame' = [frame EXCEPT !.tmpI = sI.val, !.tmpQ = sQ.val,
                                       !.i = 1, !.pc = "loop"]
           ELSE frame' = [frame EXCEPT !.pc = "raised", !.error = "ValueError"]
    /\ steps' = steps \cup {"sort"}
    /\ UNCHANGED <<ctorVars, accessVars, args, call_no, first_out>>

\* lines 77-80, one iteration
ScLoop ==
    /\ frame.pc = "loop"
    /\ frame.i <= Len(frame.tmpI)
    /\ LET r == LoopBody(frame.out, frame.tmpI, frame.tmpQ, frame.noq, frame.i)
       IN  IF r.ok
           THEN frame' = [frame EXCEPT !.out = r.out, !.i = @ + 1]
           ELSE frame' = [frame EXCEPT !.out = r.out, !.pc = "raised",
                                       !.error = "IndexError"]
    /\ steps' = steps \cup {"loop"}
    /\ UNCHANGED <<ctorVars, accessVars, args, call_no, first_out>>

\* line 81
ScReturn ==
    /\ frame.pc = "loop"
    /\ frame.i > Len(frame.tmpI)
    /\ frame' = [frame EXCEPT !.pc = "returned"]
    /\ steps' = steps \cup {"return"}
    /\ UNCHANGED <<ctorVars, accessVars, args, call_no, first_out>>

\* _sortconv(out, <the same mode>): the caller sorts the sorted list again
ScReapply ==
    /\ frame.pc = "returned"
    /\ call_no = 1
    /\ first_out' = frame.out
    /\ args' = [args EXCEPT !.chans_names = frame.out]
    /\ frame' = [NoFrame EXCEPT !.pc = "entry"]
    /\ steps' = {}
    /\ call_no' = 2
    /\ UNCHANGED <<ctorVars, accessVars>>

NextSort ==
    \/ ScAssert
    \/ ScSelect
    \/ ScSort
    \/ ScLoop
    \/ ScReturn
    \/ ScReapply

SpecSort == InitSort /\ [][NextSort]_vars

(***************************************************************************)
(* The accessor surface: the properties of a constructed object.           *)
(***************************************************************************)
\* the lists a property hands to a helper
ListTargets == {"rx_fine", "rx_coarse", "tx_fine", "tx_coarse"}

\* one property: the list, literal channel or device it addresses, the
\* attribute, the direction, and the helpers of its getter and its setter
Prop(name, target, attr, output, getter, setter) ==
    [name |-> name, target |-> target, attr |-> attr, output |-> output,
     getter |-> getter, setter |-> setter]

\* a vector property read with _get_iio_attr_vec
VecProp(name, target, attr, output, setter) ==
    Prop(name, target, attr, output, "_get_iio_attr_vec", setter)

RxProperties ==
    { VecProp("rx_channel_nco_frequencies", "rx_fine",
              "channel_nco_frequency", FALSE, "_set_iio_attr_int_vec"),
      VecProp("rx_channel_nco_phases", "rx_fine",
              "channel_nco_phase", FALSE, "_set_iio_attr_int_vec"),
      VecProp("rx_main_nco_frequencies", "rx_coarse",
              "main_nco_frequency", FALSE, "_set_iio_attr_int_vec"),
      VecProp("rx_main_nco_phases", "rx_coarse",
              "main_nco_phase", FALSE, "_set_iio_attr_int_vec"),
      Prop("rx_test_mode", "rx_coarse", "test_mode", FALSE,
           "_get_iio_attr_str_single", "_set_iio_attr_single"),
      Prop("rx_nyquist_zone", "rx_coarse", "nyquist_zone", FALSE,
           "_get_iio_attr_str_vec", "_set_iio_attr_str_vec"),
      VecProp("rx_main_6dB_digital_gains", "rx_coarse",
              "main_6db_digital_gain_en", FALSE, "_set_iio_attr_int_vec"),
      VecProp("rx_channel_6dB_digital_gains", "rx_fine",
              "channel_6db_digital_gain_en", FALSE, "_set_iio_attr_int_vec"),
      VecProp("rx_main_nco_ffh_index", "rx_coarse",
              "main_nco_ffh_index", FALSE, "_set_iio_attr_int_vec"),
      VecProp("rx_main_nco_ffh_select", "rx_coarse",
              "main_nco_ffh_select", FALSE, "_set_iio_attr_int_vec"),
      Prop("rx_main_ffh_mode", "rx_coarse", "main_ffh_mode", FALSE,
           "_get_iio_attr_str_vec", "_set_iio_attr_str_vec"),
      VecProp("rx_main_ffh_trig_hop_en", "rx_coarse",
              "main_ffh_trig_hop_en", FALSE, "_set_iio_attr_int_vec"),
      VecProp("rx_main_ffh_gpio_mode_enable", "rx_coarse",
              "main_ffh_gpio_mode_en", FALSE, "_set_iio_attr_int_vec") }

TxProperties ==
    { VecProp("tx_channel_nco_frequencies", "tx_fine",
              "channel_nco_frequency", TRUE, "_set_iio_attr_int_vec"),
      VecProp("tx_channel_nco_phases", "tx_fine",
              "channel_nco_phase", TRUE, "_set_iio_attr_int_vec"),
      VecProp("tx_channel_nco_test_tone_en", "tx_coarse",
              "channel_nco_test_tone_en", TRUE, "_set_iio_attr_int_vec"),
      VecProp("tx_channel_nco_test_tone_scales", "tx_coarse",
              "channel_nco_test_tone_scale", TRUE, "_set_iio_attr_float_vec"),
      VecProp("tx_channel_nco_gain_scales", "tx_coarse",
              "channel_nco_gain_scale", TRUE, "_set_iio_attr_float_vec"),
      VecProp("tx_main_nco_frequencies", "tx_coarse",
              "main_nco_frequency", TRUE, "_set_iio_attr_int_vec"),
      VecProp("tx_main_nco_phases", "tx_coarse",
              "main_nco_phase", TRUE, "_set_iio_attr_int_vec"),
      VecProp("tx_main_nco_test_tone_en", "tx_coarse",
              "main_nco_test_tone_en", TRUE, "_set_iio_attr_int_vec"),
      VecProp("tx_main_nco_test_tone_scales", "tx_coarse",
              "main_nco_test_tone_scale", TRUE, "_set_iio_attr_float_vec"),
      VecProp("tx_main_ffh_frequency", "tx_coarse",
              "main_nco_ffh_frequency", TRUE, "_set_iio_attr_int_vec"),
      VecProp("tx_main_ffh_index", "tx_coarse",
              "main_nco_ffh_index", TRUE, "_set_iio_attr_int_vec"),
      VecProp("tx_main_nco_ffh_select", "tx_coarse",
              "main_nco_ffh_select", TRUE, "_set_iio_attr_int_vec"),
      Prop("tx_main_ffh_mode", "tx_coarse", "main_ffh_mode", TRUE,
           "_get_iio_attr_str_vec", "_set_iio_attr_str_vec"),
      Prop("tx_main_ffh_gpio_mode_enable", "literal",
           "main_ffh_gpio_mode_en", TRUE,
           "_get_iio_attr_single", "_set_iio_attr_single"),
      VecProp("tx_dac_en", "tx_coarse", "en", TRUE, "_set_iio_attr_int_vec"),
      Prop("tx_dac_full_scale_current", "device",
           "dac-full-scale-current-ua", FALSE,
           "none", "_set_iio_debug_attr_str") }

\* read-only: the sample rates and converter clocks
RateProperties ==
    { Prop("rx_sample_rate", "rx_coarse", "sampling_frequency", FALSE,
           "_get_iio_attr_single", "none"),
      Prop("adc_frequency", "rx_coarse", "adc_frequency", FALSE,
           "_get_iio_attr_single", "none"),
      Prop("tx_sample_rate", "tx_coarse", "sampling_frequency", TRUE,
           "_get_iio_attr_single", "none"),
      Prop("dac_frequency", "tx_coarse", "dac_frequency", TRUE,
           "_get_iio_attr_single", "none") }

\* per-device attributes of the receive device
DeviceProperties ==
    { Prop("jesd204_fsm_ctrl", "device", "jesd204_fsm_ctrl", FALSE,
           "_get_iio_dev_attr", "_set_iio_dev_attr"),
      Prop("jesd204_fsm_resume", "device", "jesd204_fsm_resume", FALSE,
           "_get_iio_dev_attr", "_set_iio_dev_attr_str"),
      Prop("jesd204_fsm_state", "device", "jesd204_fsm_state", FALSE,
           "_get_iio_dev_attr_str", "none"),
      Prop("jesd204_fsm_paused", "device", "jesd204_fsm_paused", FALSE,
           "_get_iio_dev_attr", "none"),
      Prop("jesd204_fsm_error", "device", "jesd204_fsm_error", FALSE,
           "_get_iio_dev_attr", "none"),
      Prop("jesd204_device_status", "device", "status", FALSE,
           "_get_iio_debug_attr_str", "none"),
      Prop("jesd204_device_status_check", "device", "status", FALSE,
           "_get_iio_debug_attr_str", "none"),
      Prop("chip_version", "device", "chip_version", FALSE,
           "_get_iio_debug_attr_str", "none"),
      Prop("api_version", "device", "api_version", FALSE,
           "_get_iio_debug_attr_str", "none"),
      Prop("powerdown", "device", "powerdown", FALSE,
           "_get_iio_dev_attr_single", "_set_iio_dev_attr_single") }

\* the topology map, read-only
PathMapProperty == Prop("path_map", "map", "none", FALSE, "path_map", "none")

Properties ==
    RxProperties \cup TxProperties \cup RateProperties
        \cup DeviceProperties \cup {PathMapProperty}

VectorGetters == {"_get_iio_attr_vec", "_get_iio_attr_str_vec"}

VectorSetters ==
    {"_set_iio_attr_int_vec", "_set_iio_attr_str_vec", "_set_iio_attr_float_vec"}

SingleGetters == {"_get_iio_attr_str_single", "_get_iio_attr_single"}

SingleSetters == {"_set_iio_attr_single"}

DeviceGetters ==
    {"_get_iio_dev_attr", "_get_iio_dev_attr_str",
     "_get_iio_debug_attr_str", "_get_iio_dev_attr_single"}

DeviceSetters ==
    {"_set_iio_dev_attr", "_set_iio_dev_attr_str",
     "_set_iio_debug_attr_str", "_set_iio_dev_attr_single"}

\* the value a setter is given; which accesses are made does not depend
\* on it
AttrValues == {1}

VectorValues == UNION { [1..n -> AttrValues] : n \in 0..MaxValues }

\* an argument that is a list of names, and one that is a single name
AsList(names) == [is_list |-> TRUE, names |-> names, name |-> <<>>]

AsName(name) == [is_list |-> FALSE, names |-> <<>>, name |-> name]

\* the attribute bus: one read or write of a channel attribute
\* (_get_iio_attr, _get_iio_attr_str, _set_iio_attr of the attribute base)
BusRead(channel, attr, output) ==
    [op |-> "read", channel |-> channel, attr |-> attr, output |-> output,
     value |-> <<>>]

BusWrite(channel, attr, output, value) ==
    [op |-> "write", channel |-> channel, attr |-> attr, output |-> output,
     value |-> <<value>>]

\* one read or write of an attribute of the receive device
\* (_get_iio_dev_attr, _get_iio_debug_attr_str, ... of the attribute base)
BusDevRead(attr) ==
    [op |-> "dev_read", channel |-> <<>>, attr |-> attr, output |-> FALSE,
     value |-> <<>>]

BusDevWrite(attr, value) ==
    [op |-> "dev_write", channel |-> <<>>, attr |-> attr, output |-> FALSE,
     value |-> <<value>>]

\* how a helper ends: its status, the bus accesses it made, and the list
\* object it was handed as the call leaves it
Ended(status, accesses, names) ==
    [status |-> status, io |-> accesses, names |-> names]

\* the plausible slip: an empty list falls back to the channel "voltage0_i"
SelectFirst_channel_zero(channel_name) ==
    IF channel_name.is_list
    THEN IF channel_name.names = <<>>
         THEN [ok |-> TRUE, name |-> VoltageI(0), names |-> channel_name.names]
         ELSE [ok |-> TRUE, name |-> channel_name.names[1],
               names |-> channel_name.names]
    ELSE [ok |-> TRUE, name |-> channel_name.name, names |-> channel_name.names]

\* the plausible slip: channel_name.pop(0) in place of channel_name[0]
SelectFirst_pop(channel_name) ==
    IF channel_name.is_list
    THEN IF channel_name.names = <<>>
         THEN [ok |-> FALSE, name |-> <<>>, names |-> channel_name.names]
         ELSE [ok |-> TRUE, name |-> channel_name.names[1],
               names |-> Tail(channel_name.names)]
    ELSE [ok |-> TRUE, name |-> channel_name.name, names |-> channel_name.names]

\* if isinstance(channel_name, list): channel_name = channel_name[0]
\* ok is FALSE when channel_name[0] raises IndexError
SelectFirst(channel_name) ==
    IF channel_name.is_list
    THEN IF channel_name.names = <<>>
         THEN [ok |-> FALSE, name |-> <<>>, names |-> channel_name.names]
         ELSE [ok |-> TRUE, name |-> channel_name.names[1],
               names |-> channel_name.names]
    ELSE [ok |-> TRUE, name |-> channel_name.name, names |-> channel_name.names]

get_iio_attr_str_single(channel_name, attr, output) ==
    LET s == SelectFirst(channel_name)
    IN  IF s.ok
        THEN Ended("ok", <<BusRead(s.name, attr, output)>>, s.names)
        ELSE Ended("IndexError", <<>>, s.names)

set_iio_attr_str_single(channel_name, attr, output, value) ==
    LET s == SelectFirst(channel_name)
    IN  IF s.ok
        THEN Ended("ok", <<BusWrite(s.name, attr, output, value)>>, s.names)
        ELSE Ended("IndexError", <<>>, s.names)

get_iio_attr_single(channel_name, attr, output) ==
    LET s == SelectFirst(channel_name)
    IN  IF s.ok
        THEN Ended("ok", <<BusRead(s.name, attr, output)>>, s.names)
        ELSE Ended("IndexError", <<>>, s.names)

set_iio_attr_single(channel_name, attr, output, value) ==
    LET s == SelectFirst(channel_name)
    IN  IF s.ok
        THEN Ended("ok", <<BusWrite(s.name, attr, output, value)>>, s.names)
        ELSE Ended("IndexError", <<>>, s.names)

\* the vector read of the attribute base: one read per name of the list,
\* unavailable on an empty list
get_iio_attr_vec(channel_names, attr, output) ==
    IF channel_names = <<>>
    THEN Ended("UnavailableOperation", <<>>, channel_names)
    ELSE Ended("ok",
               [i \in 1..Len(channel_names) |->
                    BusRead(channel_names[i], attr, output)],
               channel_names)

\* the vector write of the attribute base: unavailable on an empty list,
\* rejected before any write when the lengths differ
set_iio_attr_vec(channel_names, attr, output, values) ==
    IF channel_names = <<>>
    THEN Ended("UnavailableOperation", <<>>, channel_names)
    ELSE IF Len(values) # Len(channel_names)
    THEN Ended("LengthMismatch", <<>>, channel_names)
    ELSE Ended("ok",
               [i \in 1..Len(channel_names) |->
                    BusWrite(channel_names[i], attr, output, values[i])],
               channel_names)

\* the list a property hands to its helper
TargetList(target) ==
    CASE target = "rx_fine" -> rx_fine_ddc_channel_names
      [] target = "rx_coarse" -> rx_coarse_ddc_channel_names
      [] target = "tx_fine" -> tx_fine_duc_channel_names
      [] target = "tx_coarse" -> tx_coarse_duc_channel_names
      [] OTHER -> <<>>

\* the channel argument of a single-form call: a list, or "voltage0_i"
ChannelArg(target) ==
    IF target = "literal" THEN AsName(VoltageI(0))
    ELSE AsList(TargetList(target))

\* the getter of property p
Getter(p) ==
    CASE p.getter \in VectorGetters ->
             get_iio_attr_vec(TargetList(p.target), p.attr, p.output)
      [] p.getter = "_get_iio_attr_str_single" ->
             get_iio_attr_str_single(ChannelArg(p.target), p.attr, p.output)
      [] p.getter = "_get_iio_attr_single" ->
             get_iio_attr_single(ChannelArg(p.target), p.attr, p.output)
      [] p.getter \in DeviceGetters ->
             Ended("ok", <<BusDevRead(p.attr)>>, <<>>)
      [] p.getter = "path_map" -> Ended("ok", <<>>, <<>>)
      [] OTHER -> Ended("AttributeError", <<>>, TargetList(p.target))

\* the setter of property p
Setter(p, value) ==
    CASE p.setter \in VectorSetters ->
             set_iio_attr_vec(TargetList(p.target), p.attr, p.output, value)
      [] p.setter = "_set_iio_attr_single" ->
             set_iio_attr_single(ChannelArg(p.target), p.attr, p.output,
                                 value[1])
      [] p.setter \in DeviceSetters ->
             Ended("ok", <<BusDevWrite(p.attr, value[1])>>, <<>>)
      [] OTHER -> Ended("AttributeError", <<>>, TargetList(p.target))

\* the call has ended as r: the list handed over stands as the call left it
Leave(p, write, value, r) ==
    /\ io' = r.io
    /\ result' = r.status
    /\ last' = [name |-> p.name, target |-> p.target, write |-> write,
                value |-> value, names |-> TargetList(p.target)]
    /\ rx_fine_ddc_channel_names' =
           IF p.target = "rx_fine" THEN r.names ELSE rx_fine_ddc_channel_names
    /\ rx_coarse_ddc_channel_names' =
           IF p.target = "rx_coarse" THEN r.names
           ELSE rx_coarse_ddc_channel_names
    /\ tx_fine_duc_channel_names' =
           IF p.target = "tx_fine" THEN r.names ELSE tx_fine_duc_channel_names
    /\ tx_coarse_duc_channel_names' =
           IF p.target = "tx_coarse" THEN r.names
           ELSE tx_coarse_duc_channel_names
    /\ UNCHANGED <<rxadc, txdac, rx_complex_data, tx_complex_data, path_map,
                   rx_channel_names, tx_channel_names, dds_channel_names,
                   pc, error, sortVars>>

\* the object is constructed: its properties may be used, in any order
\* and any number of times
Usable == pc = "done"

\* lines 226-556: a vector property is read
ReadVector ==
    /\ Usable
    /\ \E p \in Properties :
           /\ p.getter \in VectorGetters
           /\ Leave(p, FALSE, <<>>, Getter(p))

\* lines 232-562: a vector property is assigned a sequence of values
WriteVector ==
    /\ Usable
    /\ \E p \in Properties, values \in VectorValues :
           /\ p.setter \in VectorSetters
           /\ Leave(p, TRUE, values, Setter(p, values))

\* lines 274-278, 542-545, 573-599: a single-form property is read
ReadSingle ==
    /\ Usable
    /\ \E p \in Properties :
           /\ p.getter \in SingleGetters
           /\ Leave(p, FALSE, <<>>, Getter(p))

\* lines 280-284, 547-551: a single-form property is assigned
WriteSingle ==
    /\ Usable
    /\ \E p \in Properties, v \in AttrValues :
           /\ p.setter \in SingleSetters
           /\ Leave(p, TRUE, <<v>>, Setter(p, <<v>>))

\* lines 602-662: an attribute of the receive device is read
ReadDevice ==
    /\ Usable
    /\ \E p \in Properties :
           /\ p.getter \in DeviceGetters
           /\ Leave(p, FALSE, <<>>, Getter(p))

\* lines 564-570, 606-616, 664-666: an attribute of the device is assigned
WriteDevice ==
    /\ Usable
    /\ \E p \in Properties, v \in AttrValues :
           /\ p.setter \in DeviceSetters
           /\ Leave(p, TRUE, <<v>>, Setter(p, <<v>>))

\* lines 220-223: the topology map is read
ReadPathMap ==
    /\ Usable
    /\ Leave(PathMapProperty, FALSE, <<>>, Getter(PathMapProperty))

\* a property without a setter is assigned, or one without a getter is read
UseMissingAccessor ==
    /\ Usable
    /\ \/ \E p \in Properties, v \in AttrValues :
              /\ p.setter = "none"
              /\ Leave(p, TRUE, <<v>>, Setter(p, <<v>>))
       \/ \E p \in Properties :
              /\ p.getter = "none"
              /\ Leave(p, FALSE, <<>>, Getter(p))

\* a labelled complex pair on fine stage f of converter 0, coarse stage 0
PairOn(n, f) ==
    <<DataIn(VoltageI(n), Label3(SegFDDC(f), SegCDDC(0), SegADC(0))),
      DataIn(VoltageQ(n), Label3(SegFDDC(f), SegCDDC(0), SegADC(0)))>>

\* a control channel of the transmit path exposed by the receive device
DacChannel ==
    Chan(VoltageI(0), TRUE, FALSE, TRUE,
         Label3(SegFDUC(0), SegCDUC(0), SegDAC(0)))

\* the receive devices the properties are used on
AccessDevices ==
    { <<>>,
      PairOn(0, 0),
      PairOn(0, 0) \o PairOn(1, 1),
      PairOn(0, 0) \o <<DacChannel>>,
      <<DacChannel>>,
      <<DataIn(VoltageN(0), Label3(SegFDDC(0), SegCDDC(0), SegADC(0)))>>,
      <<Chan(Temp0, FALSE, FALSE, TRUE,
             Label3(SegFDDC(1), SegCDDC(0), SegADC(0)))>> }

(***************************************************************************)
(* SpecAccess: the object is constructed and its properties are then used. *)
(***************************************************************************)
InitAccess ==
    /\ rxadc \in AccessDevices
    /\ \E setup \in TxSetups :
           /\ txdac = setup.channels
           /\ tx_complex_data = setup.complex
    /\ rx_complex_data \in BOOLEAN
    /\ ListsReset
    /\ pc = "new"
    /\ args = NoArgs
    /\ frame = NoFrame
    /\ steps = {}
    /\ call_no = 0
    /\ first_out = <<>>
    /\ NoAccess

NextAccess ==
    \/ BuildPathMap
    \/ GatherChannels
    \/ SortRx
    \/ SortTx
    \/ SortDds
    \/ DeriveRepresentatives
    \/ ReadVector
    \/ WriteVector
    \/ ReadSingle
    \/ WriteSingle
    \/ ReadDevice
    \/ WriteDevice
    \/ ReadPathMap
    \/ UseMissingAccessor

SpecAccess == InitAccess /\ [][NextAccess]_vars


(***************************************************************************)
(* What the claims are stated with.  Names are recognised here by how      *)
(* they are built (VoltageI(n), ...), not by how the code parses them.     *)
(***************************************************************************)
InSeq(x, s) == \E i \in 1..Len(s) : s[i] = x

Range(s) == {s[i] : i \in 1..Len(s)}

\* the channel index a well-formed name was built from
IndexOfName(w) ==
    CHOOSE n \in Indexes :
        w \in {VoltageI(n), VoltageQ(n), VoltageN(n), AltVoltageN(n)}

\* every reordering of s
Reorderings(s) ==
    { [i \in 1..Len(s) |-> s[f[i]]] :
        f \in { g \in [1..Len(s) -> 1..Len(s)] :
                  \A i, j \in 1..Len(s) : g[i] = g[j] => i = j } }

\* a complex channel set: I/Q names only, every index with both halves
PairedComplex(names) ==
    /\ Range(names) \subseteq IQNames
    /\ \A n \in Indexes : VoltageI(n) \in Range(names) <=> VoltageQ(n) \in Range(names)

CallEnded == frame.pc \in {"returned", "raised"}

ComplexMode == args.complex /\ ~args.dds

RealMode == ~args.complex /\ ~args.dds

AuxMode == args.dds /\ ~args.complex

\* The statement-by-statement run of _sortconv returns what the function
\* sortconv, which __init__ is modelled with, returns.
StepsAgreeWithFunction ==
    CallEnded =>
        LET r == sortconv(args.chans_names, args.noq, args.dds, args.complex)
        IN  /\ (frame.pc = "returned") <=> (r.status = "ok")
            /\ frame.pc = "returned" => frame.out = r.out
            /\ frame.pc = "raised" => frame.error = r.status

C7_ConflictingModesRejected ==
    (args.dds /\ args.complex) =>
        /\ frame.pc \in {"entry", "raised"}
        /\ frame.pc = "raised" => frame.error = "AssertionError"
        /\ steps \subseteq {"assert"}
        /\ ~frame.has_out
        /\ frame.out = <<>>

\* the call on the empty list has raised
C7_Witness ==
    /\ args.dds /\ args.complex
    /\ args.chans_names = <<>>
    /\ frame.pc = "raised"
    /\ frame.error = "AssertionError"
    /\ steps = {"assert"}

\* C8: on a list of names voltage<N> in real mode, and on a list of names
\* altvoltage<N> in auxiliary mode, _sortconv returns a permutation of the
\* whole input in ascending order of the integer N.
C8_RealAndAuxSortedNumerically ==
    (CallEnded /\ \/ RealMode /\ Range(args.chans_names) \subseteq RealNames
                  \/ AuxMode /\ Range(args.chans_names) \subseteq AltNames) =>
        /\ frame.pc = "returned"
        /\ Len(frame.out) = Len(args.chans_names)
        /\ Range(frame.out) = Range(args.chans_names)
        /\ \A k, l \in 1..Len(frame.out) :
               k < l => IndexOfName(frame.out[k]) < IndexOfName(frame.out[l])

\* {voltage2, voltage0, voltage1} gives [voltage0, voltage1, voltage2]
C8_Witness ==
    /\ frame.pc = "returned"
    /\ RealMode
    /\ call_no = 1
    /\ args.chans_names = <<VoltageN(2), VoltageN(0), VoltageN(1)>>
    /\ frame.out = <<VoltageN(0), VoltageN(1), VoltageN(2)>>

\* C9: _sortconv applied, in the same mode, to the list it returned ends by
\* returning that list unchanged.
C9_Idempotent ==
    (call_no = 2 /\ CallEnded) =>
        /\ frame.pc = "returned"
        /\ frame.out = first_out

\* the second call has returned a list of two pairs
C9_Witness ==
    /\ call_no = 2
    /\ frame.pc = "returned"
    /\ ComplexMode
    /\ frame.out = <<VoltageI(0), VoltageQ(0), VoltageI(10), VoltageQ(10)>>
    /\ first_out = frame.out


(***************************************************************************)
(* The labels, as they are written, for the claims about the topology map. *)
(***************************************************************************)
Fines == {SegFDDC(0), SegFDDC(1), SegFDUC(0)}

Coarses == {SegCDDC(0), SegCDDC(1), SegCDUC(0)}

Converters == {SegADC(0), SegDAC(0)}

Sides == {SegSide}

HasLabel3(ch, f, c, a) == ch.has_label /\ ch.label = Label3(f, c, a)

HasLabel4(ch, f, c, a) ==
    ch.has_label /\ \E sd \in Sides : ch.label = Label4(sd, f, c, a)

\* the label is written with 3 segments, or with a side and 3 segments
Parseable(ch) ==
    \E f \in Fines, c \in Coarses, a \in Converters :
        HasLabel3(ch, f, c, a) \/ HasLabel4(ch, f, c, a)

\* the label is written with a segment count other than 3 or 4
WrongSegmentCount(ch) ==
    ch.has_label /\ \E f \in Fines, c \in Coarses : ch.label = Label2(f, c)

\* no label, the label buffer_only, or a wrong segment count
NotInTopology(ch) ==
    ~ch.has_label \/ ch.label = BufferOnly \/ WrongSegmentCount(ch)

\* the leaf list map[a][c][f], empty when there is none
Leaf(paths, a, c, f) ==
    IF /\ DictHas(paths, a)
       /\ DictHas(DictGet(paths, a), c)
       /\ DictHas(DictGet(DictGet(paths, a), c), f)
    THEN DictGet(DictGet(DictGet(paths, a), c), f).channels
    ELSE <<>>

\* the channel with the side of a 4-segment label taken away
WithoutSide(ch) ==
    IF \E f \in Fines, c \in Coarses, a \in Converters : HasLabel4(ch, f, c, a)
    THEN LET t == CHOOSE t \in Fines \X Coarses \X Converters :
                      HasLabel4(ch, t[1], t[2], t[3])
         IN  [ch EXCEPT !.label = Label3(t[1], t[2], t[3])]
    ELSE ch

\* every (converter, coarse) of the map, in iteration order, with the ids
\* of its fine stages flattened
CoarsePairs(converter, coarses) ==
    [j \in 1..Len(coarses) |->
        [converter |-> converter, coarse |-> coarses[j].k,
         chans |-> FlattenFine(coarses[j].v)]]

RECURSIVE AllPairs(_)
AllPairs(paths) ==
    IF paths = <<>> THEN <<>>
    ELSE CoarsePairs(Head(paths).k, Head(paths).v) \o AllPairs(Tail(paths))

RECURSIVE AllIds(_)
\* every entry of every leaf list
AllIds(pairs) ==
    IF pairs = <<>> THEN <<>> ELSE Head(pairs).chans \o AllIds(Tail(pairs))

Occurrences(id, s) == Cardinality({i \in 1..Len(s) : s[i] = id})

\* the map as line 141 stores it, and as the constructed object holds it
MapBuilt == pc \in {"mapped", "done"}

\* C1: a channel labelled "F->C->A" or "S:F->C->A" has its id in
\* map[A][C][F], and the map is the one built from the same channels with
\* every "S:F->C->A" written "F->C->A".
C1_LabelsPlaceChannels ==
    MapBuilt =>
        /\ \A f \in Fines, c \in Coarses, a \in Converters :
             \A i \in 1..Len(rxadc) :
               (HasLabel3(rxadc[i], f, c, a) \/ HasLabel4(rxadc[i], f, c, a))
                   => InSeq(rxadc[i].id, Leaf(path_map, a, c, f))
        /\ path_map = BuildPaths(<<>>, [i \in 1..Len(rxadc) |-> WithoutSide(rxadc[i])])

\* a 3-segment and a 4-segment label have put two channels into one leaf
C1_Witness ==
    /\ pc = "done"
    /\ \E i, j \in 1..Len(rxadc) :
         /\ HasLabel4(rxadc[i], SegFDDC(0), SegCDDC(0), SegADC(0))
         /\ HasLabel3(rxadc[j], SegFDDC(0), SegCDDC(0), SegADC(0))
    /\ Leaf(path_map, SegADC(0), SegCDDC(0), SegFDDC(0))
           = <<VoltageQ(0), VoltageI(0)>>


\* a wrong segment count, or a channel name whose numeric suffix is no number
Malformed(ch) == WrongSegmentCount(ch) \/ ch.id = VoltageBad

WellFormedOnly(channels) == SelectSeq(channels, LAMBDA ch : ~Malformed(ch))

CtorFailed == pc \in {"sort_failed", "derive_failed"}

\* C3: a malformed receive channel never makes construction fail: when
\* construction fails, it fails on the remaining channels alone as well.
C3_MalformedNeverFatal ==
    CtorFailed =>
        CtorStatus(WellFormedOnly(rxadc), txdac, rx_complex_data,
                   tx_complex_data) # "ok"

QNames == {VoltageQ(n) : n \in Indexes}

\* the names of a flattened list that are no "_q" name and are voltage names
Kept(chans) == SelectSeq(chans, LAMBDA n : n \notin QNames /\ n # Temp0)

RECURSIVE ConcatKept(_)
ConcatKept(pairs) ==
    IF pairs = <<>> THEN <<>>
    ELSE Kept(Head(pairs).chans) \o ConcatKept(Tail(pairs))

\* the pairs of the receive side, and those of the transmit side
RxPairs(paths) ==
    SelectSeq(AllPairs(paths), LAMBDA p : p.converter = SegADC(0))

TxPairs(paths) ==
    SelectSeq(AllPairs(paths), LAMBDA p : p.converter # SegADC(0))

\* list has one entry per pair: the first kept name of the pair
IsFirstsOfKept(list, pairs) ==
    /\ Len(list) = Len(pairs)
    /\ \A k \in 1..Len(pairs) :
         /\ Kept(pairs[k].chans) # <<>>
         /\ list[k] = Kept(pairs[k].chans)[1]

AllRepresentativesEmpty ==
    /\ rx_coarse_ddc_channel_names = <<>>
    /\ rx_fine_ddc_channel_names = <<>>
    /\ tx_coarse_duc_channel_names = <<>>
    /\ tx_fine_duc_channel_names = <<>>

\* C5 as claimed: with no buffered receive channel and no buffered transmit
\* channel gathered, construction does not fail and leaves the four
\* representative lists empty.
C5_EmptyRawListsGiveEmptyRepresentatives ==
    (GatherRx(rxadc) = <<>> /\ GatherTx(txdac) = <<>>) =>
        /\ ~CtorFailed
        /\ pc = "done" => AllRepresentativesEmpty

\* C5 as amended: with an empty topology map the derivation of the
\* representatives does not fail and leaves the four lists empty.
C5_EmptyMapGivesEmptyRepresentatives ==
    (pc \in {"done", "derive_failed"} /\ path_map = <<>>) =>
        /\ pc = "done"
        /\ AllRepresentativesEmpty

\* constructed on a device whose channels carry no parseable label
C5_Witness ==
    /\ pc = "done"
    /\ path_map = <<>>
    /\ Len(rxadc) = 2
    /\ rx_channel_names # <<>>
    /\ AllRepresentativesEmpty


\* the raw lists stand as gathered: line 151 has run, line 154 has not
RawListsGathered == pc = "gathered"

MapIds == AllIds(AllPairs(path_map))

C10_EveryIdInExactlyOneLeaf ==
    MapBuilt =>
        \A i \in 1..Len(rxadc) :
            Occurrences(rxadc[i].id, MapIds)
                = IF Parseable(rxadc[i]) THEN 1 ELSE 0

\* C10 as amended: every channel with a parseable label puts its id once
\* into the leaf its label names and no other channel puts anything, so an
\* id is in the leaf lists once for each labelled channel that has it.
C10_OneEntryPerLabelledChannel ==
    MapBuilt =>
        /\ Len(MapIds) = Cardinality({i \in 1..Len(rxadc) : Parseable(rxadc[i])})
        /\ \A i \in 1..Len(rxadc) :
             Occurrences(rxadc[i].id, MapIds)
                 = Cardinality({j \in 1..Len(rxadc) :
                                  /\ Parseable(rxadc[j])
                                  /\ rxadc[j].id = rxadc[i].id})

\* voltage0_i is an input under ADC0 and an output under DAC0
C10_Witness ==
    /\ MapBuilt
    /\ InSeq(VoltageI(0), Leaf(path_map, SegADC(0), SegCDDC(0), SegFDDC(0)))
    /\ InSeq(VoltageI(0), Leaf(path_map, SegDAC(0), SegCDUC(0), SegFDUC(0)))
    /\ Occurrences(VoltageI(0), MapIds) = 2

\* the last property call was handed a representative list that is empty
OnEmptyList ==
    /\ last.target \in ListTargets
    /\ last.names = <<>>

\* C11: a property call that is handed an empty representative list ends
\* with an error, and no attribute read or write of it reaches the
\* attribute bus.
C11_EmptyListAccessFails ==
    OnEmptyList =>
        /\ result \notin {"ok", "none"}
        /\ io = <<>>

\* rx_sample_rate was read on an object without receive representatives
C11_Witness ==
    /\ OnEmptyList
    /\ last.name = "rx_sample_rate"
    /\ ~last.write
    /\ rx_coarse_ddc_channel_names = <<>>
    /\ result = "IndexError"
    /\ io = <<>>

\* the topology map and the seven ordered lists
Topology ==
    <<path_map, rx_channel_names, tx_channel_names, dds_channel_names,
      rx_coarse_ddc_channel_names, rx_fine_ddc_channel_names,
      tx_coarse_duc_channel_names, tx_fine_duc_channel_names>>

\* how far construction has come
StageOf(p) ==
    CASE p = "new" -> 0
      [] p = "mapped" -> 1
      [] p = "gathered" -> 2
      [] p = "rx_sorted" -> 3
      [] p = "tx_sorted" -> 4
      [] p = "sorted" -> 5
      [] OTHER -> 6

\* C12: the topology map is assigned by the one step of construction that
\* builds it, the lists change only in steps of construction, no step of
\* construction is taken twice, and once the object is constructed no
\* property read or write changes the map or any of the lists.
C12_TopologyBuiltOnceThenFixed ==
    [][ /\ path_map' # path_map => (pc = "new" /\ pc' = "mapped")
        /\ Topology' # Topology => StageOf(pc) < StageOf("done")
        /\ pc' # pc => StageOf(pc') > StageOf(pc)
        /\ pc = "done" => (pc' = "done" /\ Topology' = Topology) ]_vars

\* a property of an object with receive representatives has been
\* assigned, and the write reached the attribute bus
C12_Witness ==
    /\ pc = "done"
    /\ path_map # <<>>
    /\ rx_coarse_ddc_channel_names # <<>>
    /\ last.target = "rx_coarse"
    /\ last.write
    /\ result = "ok"
    /\ io # <<>>

=============================================================================
